---- MODULE Spec2Model ----
(***************************************************************************)
(* A model of the client-side state layer of the shopping assistant: the   *)
(* cart reducer and the useCart hook with its localStorage persistence,    *)
(* the product cache and the useProducts browsing hook, the voice button's *)
(* status monitoring, and the voice-tool event bridge.                     *)
(*                                                                         *)
(* Prices are integers (minor currency units); JS arrays are 1-based       *)
(* sequences, so findIndex returns 0 where JS returns -1.                  *)
(***************************************************************************)
EXTENDS Integers, Sequences, FiniteSets, Bags, TLC

VARIABLES
    \* ---- useCart (src/lib/types.ts) and localStorage ----
    cart,           \* CartState: [items: Seq([product, quantity]), subtotal]
    storage,        \* the 'jarvis-cart' localStorage entry
    cartProducts,   \* the products argument of useCart
    lastOp,         \* the last cart request and whether it threw
    \* ---- productUtils cache (module level) and the clock ----
    productCache,   \* Product[] | null
    cacheTimestamp, \* number | null
    clock,          \* Date.now(), in ms since the page was loaded
    fetchLog,       \* the last call of fetchProductsWithCache and what it found
    \* ---- useProducts ----
    products,
    filteredProducts,
    currentProductIndex,   \* 0-based, as in the code
    isLoading,
    error,
    activeCategory,
    inflight,       \* the bag of loadProducts calls awaiting the network
    \* ---- voiceFunctions (module level) and VoiceButton ----
    uvSession,      \* "null", or the status of the UltravoxSession
    isCreatingCall,
    localStatus,
    isActivating,
    callPhase,      \* the await at which handleActivate's startCall is suspended
    lastVoiceOp,    \* the last step of the voice layer and the status shown before it
    mounted,        \* the voice button is mounted
    timers,         \* the status intervals that have been set and not cleared
    buttonListener, \* the session the live monitoring effect's listener is on
    leaked,         \* a listener of a torn-down monitoring effect is still attached
    endedSession,   \* the session that was left last: its status, and the step that left it
    \* ---- Home (main page) ----
    selectedProduct,
    showCart,
    lastTool,       \* the last voice tool invocation and the event it dispatched
    \* ---- history of the calls the claims are about ----
    apiResponse,    \* the response the last fetchProducts call received
    fetchOutcome,   \* what that call returned or threw
    lastNav,        \* the last browsing request and the index and list before it
    storageFails,   \* localStorage throws on every access (quota, disabled storage)
    toolCall,       \* the last updateCart invocation: its parameters, the cart it found, its answer
    starts,         \* the startCall invocations in progress, each by the await it is at
    liveSessions    \* the sessions constructed and not yet left

cartVars == <<cart, storage, cartProducts, lastOp>>
cacheVars == <<productCache, cacheTimestamp, clock, fetchLog>>
browseVars == <<products, filteredProducts, currentProductIndex, isLoading,
                error, activeCategory, inflight>>
voiceVars == <<uvSession, isCreatingCall, localStatus, isActivating, callPhase,
               lastVoiceOp>>
startVars == <<starts, liveSessions>>
monitorVars == <<mounted, timers, buttonListener, leaked, endedSession>>
homeVars == <<selectedProduct, showCart, lastTool>>

fetchVars == <<apiResponse, fetchOutcome>>

vars == <<cartVars, cacheVars, browseVars, voiceVars, monitorVars, homeVars,
          fetchVars, lastNav, storageFails, toolCall, startVars>>

\* What the steps of one layer leave alone.
notCart ==
    <<cacheVars, browseVars, voiceVars, monitorVars, homeVars, fetchVars, lastNav,
      storageFails, toolCall, startVars>>
notBrowse ==
    <<cartVars, voiceVars, monitorVars, homeVars, fetchVars, lastNav, storageFails, toolCall, startVars>>
notVoice == <<cartVars, cacheVars, browseVars, homeVars, fetchVars, lastNav, storageFails, toolCall, startVars>>
notBridge == <<voiceVars, monitorVars, fetchVars, lastNav, storageFails, toolCall, startVars>>

-----------------------------------------------------------------------------
(* Bounds of the model *)

\* Largest quantity a request may carry, and the cap on a cart line's quantity.
MaxQty == 2
MaxLineQty == 3

\* The clock advances MaxTicks times at most.
MaxTicks == 3

\* loadProducts calls that may await the network at once.
MaxInflight == 2

\* Records in one API response.
MaxRecords == 3

\* startCall invocations that may be in progress at once, were nothing to stop them.
MaxStarts == 2
MaxBatch == 3

\* The largest index a caller asks setCurrentIndex for.
MaxIndex == 3

\* Quantities a caller may pass, including the non-positive ones the reducer rejects.
QtyInputs == (0 - 1)..MaxQty

-----------------------------------------------------------------------------
(* Products *)

Prod(i, pr, c) == [id |-> i, price |-> pr, category |-> c]

\* Product lists as successive fetches may return them: the price of a product
\* can differ between fetches, and a product can disappear from the catalog.
CatalogA == << Prod(1, 10, "electronics"), Prod(2, 20, "jewelery") >>
CatalogB == << Prod(2, 20, "jewelery"), Prod(1, 15, "electronics") >>
CatalogC == << Prod(2, 20, "jewelery") >>
Catalogs == {CatalogA, CatalogB, CatalogC}

SeqRange(s) == {s[i] : i \in 1..Len(s)}

AllProducts == UNION {SeqRange(c) : c \in Catalogs}
AllProductIds == {p.id : p \in AllProducts} \cup {3}

-----------------------------------------------------------------------------
(* Cart reducer: cartUtils *)

\* A reducer call either returns a cart or throws.
Returned(c) == [threw |-> FALSE, cart |-> c]
Thrown(c) == [threw |-> TRUE, cart |-> c]

RECURSIVE ReduceSubtotal(_, _, _)
ReduceSubtotal(items, i, sum) ==
    IF i > Len(items) THEN sum
    ELSE ReduceSubtotal(items, i + 1,
                        sum + items[i].product.price * items[i].quantity)

calculateSubtotal(items) == ReduceSubtotal(items, 1, 0)

clearCart == [items |-> <<>>, subtotal |-> 0]

\* Array.prototype.findIndex on the product id: the first match, 0 for none.
findIndex(items, pid) ==
    IF \E i \in 1..Len(items) : items[i].product.id = pid
    THEN CHOOSE i \in 1..Len(items) :
            /\ items[i].product.id = pid
            /\ \A j \in 1..(i - 1) : items[j].product.id # pid
    ELSE 0

\* An add that always appends a new line, merging nothing.
addToCart_AlwaysAppends(c, product, quantity) ==
    IF quantity <= 0 THEN Thrown(c)
    ELSE LET updatedItems ==
                 Append(c.items, [product |-> product, quantity |-> quantity])
         IN Returned([items |-> updatedItems,
                      subtotal |-> calculateSubtotal(updatedItems)])

\* An add that overwrites the quantity of an existing line.
addToCart_Overwrites(c, product, quantity) ==
    IF quantity <= 0 THEN Thrown(c)
    ELSE LET existingItemIndex == findIndex(c.items, product.id)
             updatedItems ==
                 IF existingItemIndex >= 1
                 THEN [i \in 1..Len(c.items) |->
                          IF i = existingItemIndex
                          THEN [c.items[i] EXCEPT !.quantity = quantity]
                          ELSE c.items[i]]
                 ELSE Append(c.items, [product |-> product, quantity |-> quantity])
         IN Returned([items |-> updatedItems,
                      subtotal |-> calculateSubtotal(updatedItems)])

addToCart(c, product, quantity) ==
    IF quantity <= 0 THEN Thrown(c)
    ELSE LET existingItemIndex == findIndex(c.items, product.id)
             updatedItems ==
                 IF existingItemIndex >= 1
                 THEN [i \in 1..Len(c.items) |->
                          IF i = existingItemIndex
                          THEN [c.items[i] EXCEPT !.quantity = @ + quantity]
                          ELSE c.items[i]]
                 ELSE Append(c.items, [product |-> product, quantity |-> quantity])
         IN Returned([items |-> updatedItems,
                      subtotal |-> calculateSubtotal(updatedItems)])

\* A remove that drops the last line when no line has the id.
removeFromCart_DropsLastWhenAbsent(c, productId) ==
    LET updatedItems ==
            IF findIndex(c.items, productId) = 0 /\ Len(c.items) > 0
            THEN SubSeq(c.items, 1, Len(c.items) - 1)
            ELSE SelectSeq(c.items, LAMBDA it : it.product.id # productId)
    IN Returned([items |-> updatedItems,
                 subtotal |-> calculateSubtotal(updatedItems)])

removeFromCart(c, productId) ==
    LET updatedItems == SelectSeq(c.items, LAMBDA it : it.product.id # productId)
    IN Returned([items |-> updatedItems,
                 subtotal |-> calculateSubtotal(updatedItems)])

\* An update that keeps the subtotal it was given.
updateCartItemQuantity_KeepsSubtotal(c, productId, quantity) ==
    IF quantity <= 0 THEN Thrown(c)
    ELSE Returned([items |->
                      [i \in 1..Len(c.items) |->
                          IF c.items[i].product.id = productId
                          THEN [c.items[i] EXCEPT !.quantity = quantity]
                          ELSE c.items[i]],
                   subtotal |-> c.subtotal])

\* An update without the quantity check.
updateCartItemQuantity_Unchecked(c, productId, quantity) ==
    LET updatedItems ==
            [i \in 1..Len(c.items) |->
                IF c.items[i].product.id = productId
                THEN [c.items[i] EXCEPT !.quantity = quantity]
                ELSE c.items[i]]
    IN Returned([items |-> updatedItems,
                 subtotal |-> calculateSubtotal(updatedItems)])

updateCartItemQuantity(c, productId, quantity) ==
    IF quantity <= 0 THEN Thrown(c)
    ELSE LET updatedItems ==
                 [i \in 1..Len(c.items) |->
                     IF c.items[i].product.id = productId
                     THEN [c.items[i] EXCEPT !.quantity = quantity]
                     ELSE c.items[i]]
         IN Returned([items |-> updatedItems,
                      subtotal |-> calculateSubtotal(updatedItems)])

-----------------------------------------------------------------------------
(* Persistence: saveCart / loadCart *)

\* The localStorage entry: absent, or the JSON text of a PersistedCart. The text
\* is kept as what JSON.parse makes of it; lastUpdated is written but never read.
NoEntry == [present |-> FALSE, parseable |-> TRUE, items |-> <<>>]
Entry(pairs) == [present |-> TRUE, parseable |-> TRUE, items |-> pairs]

\* An entry whose text JSON.parse rejects: a save cut short, its first pair
\* still legible.
Truncated(pairs) == [present |-> TRUE, parseable |-> FALSE, items |-> pairs]

\* cart.items.map(item => ({productId: item.product.id, quantity: item.quantity}))
PersistedItems(items) ==
    [i \in 1..Len(items) |->
        [productId |-> items[i].product.id, quantity |-> items[i].quantity]]

saveCart(c) == Entry(PersistedItems(c.items))

\* products.find(p => p.id === productId): the first match
HasProduct(catalog, pid) == \E i \in 1..Len(catalog) : catalog[i].id = pid
FindProduct(catalog, pid) ==
    catalog[CHOOSE i \in 1..Len(catalog) :
                /\ catalog[i].id = pid
                /\ \A j \in 1..(i - 1) : catalog[j].id # pid]

\* A reconstruction that stops at the first stale reference.
RECURSIVE Reconstruct_StopsAtStale(_, _, _)
Reconstruct_StopsAtStale(pairs, catalog, i) ==
    IF i > Len(pairs) THEN <<>>
    ELSE IF HasProduct(catalog, pairs[i].productId)
         THEN <<[product |-> FindProduct(catalog, pairs[i].productId),
                 quantity |-> pairs[i].quantity]>>
              \o Reconstruct_StopsAtStale(pairs, catalog, i + 1)
         ELSE <<>>

RECURSIVE Reconstruct(_, _, _)
Reconstruct(pairs, catalog, i) ==
    IF i > Len(pairs) THEN <<>>
    ELSE IF HasProduct(catalog, pairs[i].productId)
         THEN <<[product |-> FindProduct(catalog, pairs[i].productId),
                 quantity |-> pairs[i].quantity]>>
              \o Reconstruct(pairs, catalog, i + 1)
         ELSE Reconstruct(pairs, catalog, i + 1)

\* A load that reads what is legible of an entry JSON.parse rejects.
loadCart_IgnoresParseError(store, catalog) ==
    IF storageFails THEN clearCart
    ELSE IF ~store.present THEN clearCart
    ELSE LET items == Reconstruct(store.items, catalog, 1)
         IN [items |-> items, subtotal |-> calculateSubtotal(items)]

\* loadCart: getItem or JSON.parse throwing is caught and gives clearCart().
loadCart(store, catalog) ==
    IF storageFails THEN clearCart
    ELSE IF ~store.present THEN clearCart
    ELSE IF ~store.parseable THEN clearCart
    ELSE LET items == Reconstruct(store.items, catalog, 1)
         IN [items |-> items, subtotal |-> calculateSubtotal(items)]

-----------------------------------------------------------------------------
(* useCart: the hook's state, its two effects and its operations *)

NoProduct == Prod(0, 0, "none")

\* The record of a request: its arguments, whether it threw, and the cart and
\* the storage entry it found.
Op(name, product, productId, quantity, threw) ==
    [op |-> name, product |-> product, productId |-> productId,
     quantity |-> quantity, threw |-> threw,
     before |-> cart, beforeStore |-> storage]

\* A save effect without the test for the empty initial state.
SaveEffect_Unguarded(c, store) ==
    IF ~storageFails THEN saveCart(c) ELSE store

\* The save effect, run after every render in which the cart changed; when
\* setItem throws, saveCart catches and the entry stays.
SaveEffect(c, store) ==
    IF (Len(c.items) > 0 \/ c.subtotal > 0) /\ ~storageFails THEN saveCart(c) ELSE store

\* What a previous page session may have left in localStorage.
InitialEntries ==
    { NoEntry,
      Entry(<< [productId |-> 1, quantity |-> 2] >>),
      Entry(<< [productId |-> 3, quantity |-> 1], [productId |-> 2, quantity |-> 1] >>) }

InitCart ==
    /\ cart = [items |-> <<>>, subtotal |-> 0]
    /\ storage \in InitialEntries
    /\ cartProducts = <<>>
    /\ lastOp = Op("mount", NoProduct, 0, 0, FALSE)

\* setCart(prev => reducer(prev, ...)): a reducer that throws leaves the state as
\* it was and the error reaches the caller; otherwise the new cart is rendered
\* and the save effect runs.
Commit(name, product, productId, quantity, r) ==
    /\ cart' = r.cart
    /\ storage' = IF r.threw THEN storage ELSE SaveEffect(r.cart, storage)
    /\ lastOp' = Op(name, product, productId, quantity, r.threw)
    /\ UNCHANGED cartProducts

LineQty(c, pid) ==
    IF findIndex(c.items, pid) >= 1 THEN c.items[findIndex(c.items, pid)].quantity ELSE 0

HookAddToCart(product, quantity) ==
    /\ LineQty(cart, product.id) + quantity <= MaxLineQty
    /\ Commit("add", product, product.id, quantity, addToCart(cart, product, quantity))

HookRemoveFromCart(productId) ==
    /\ productId \in AllProductIds
    /\ Commit("remove", NoProduct, productId, 0, removeFromCart(cart, productId))

HookUpdateQuantity(productId, quantity) ==
    /\ quantity <= MaxLineQty
    /\ Commit("update", NoProduct, productId, quantity,
              updateCartItemQuantity(cart, productId, quantity))

\* setCart(clearCart()) and localStorage.removeItem; the save effect then sees
\* the empty cart and writes nothing.
HookClearCart ==
    /\ cart' = clearCart
    /\ storage' = SaveEffect(clearCart, IF storageFails THEN storage ELSE NoEntry)
    /\ lastOp' = Op("clear", NoProduct, 0, 0, FALSE)
    /\ UNCHANGED cartProducts

\* The products argument changes (a fetch delivered a list): the load effect
\* replaces the cart by loadCart(products) when the list is non-empty, and the
\* save effect follows.
ProductsChanged(catalog) ==
    /\ cartProducts' = catalog
    /\ cart' = IF Len(catalog) > 0 THEN loadCart(storage, catalog) ELSE cart
    /\ storage' = IF Len(catalog) > 0
                  THEN SaveEffect(loadCart(storage, catalog), storage)
                  ELSE storage
    /\ lastOp' = Op("load", NoProduct, 0, 0, FALSE)

\* The page is reloaded: the hook is constructed again with the empty cart and
\* no products, and its effects run: the load effect skips the empty list, the
\* save effect sees the initial cart.
Reload ==
    /\ cart' = [items |-> <<>>, subtotal |-> 0]
    /\ cartProducts' = <<>>
    /\ lastOp' = Op("mount", NoProduct, 0, 0, FALSE)
    /\ storage' = SaveEffect([items |-> <<>>, subtotal |-> 0], storage)

\* localStorage starts or stops throwing (quota exceeded, storage disabled).
StorageChanges ==
    /\ storageFails' = ~storageFails
    /\ lastOp' = Op("storage", NoProduct, 0, 0, FALSE)
    /\ UNCHANGED <<cart, storage, cartProducts>>

-----------------------------------------------------------------------------
(* productUtils: fetchProducts and the five-minute cache *)

ValidCategories == {"electronics", "jewelery", "men's clothing", "women's clothing"}

isValidCategory(category) == category \in ValidCategories

\* A record of the API response: the fields the code reads, and whether
\* validateProduct accepts its shape.
Raw(i, pr, c, shapeOk) == [id |-> i, price |-> pr, category |-> c, shapeOk |-> shapeOk]

validateProduct(raw) == raw.shapeOk

ParseThrows(raw) == ~validateProduct(raw) \/ ~isValidCategory(raw.category)
parseProduct(raw) == Prod(raw.id, raw.price, raw.category)

\* What the network may answer: an HTTP error, a body that is no array, or an
\* array of records.
HttpError == [ok |-> FALSE, isArray |-> FALSE, data |-> <<>>]
NotArray == [ok |-> TRUE, isArray |-> FALSE, data |-> <<>>]
Array(records) == [ok |-> TRUE, isArray |-> TRUE, data |-> records]

Responses ==
    { HttpError,
      Array(<< Raw(1, 10, "electronics", TRUE), Raw(2, 20, "jewelery", TRUE) >>),
      Array(<< Raw(2, 20, "jewelery", TRUE), Raw(4, 5, "toys", TRUE) >>),
      Array(<< Raw(5, 30, "electronics", FALSE) >>) }

RECURSIVE ParseAll(_, _)
ParseAll(data, i) ==
    IF i > Len(data) THEN <<>>
    ELSE IF ParseThrows(data[i]) THEN ParseAll(data, i + 1)
         ELSE <<parseProduct(data[i])>> \o ParseAll(data, i + 1)

\* fetchProducts: the list of the records that parse, or a throw and the check
\* that raised it.
Fetched(list) == [threw |-> FALSE, products |-> list, reason |-> ""]
FetchThrown(reason) == [threw |-> TRUE, products |-> <<>>, reason |-> reason]

\* A fetch that gives up at the first record that does not parse.
fetchProducts_AllOrNothing(response) ==
    IF ~response.ok THEN FetchThrown("http")
    ELSE IF ~response.isArray THEN FetchThrown("not an array")
    ELSE IF Len(response.data) > 0
            /\ Len(ParseAll(response.data, 1)) = Len(response.data)
         THEN Fetched(ParseAll(response.data, 1))
         ELSE FetchThrown("no record parsed")

fetchProducts(response) ==
    IF ~response.ok THEN FetchThrown("http")
    ELSE IF ~response.isArray THEN FetchThrown("not an array")
    ELSE IF Len(ParseAll(response.data, 1)) > 0
         THEN Fetched(ParseAll(response.data, 1))
         ELSE FetchThrown("no record parsed")

\* The records an API response may hold, and the responses of up to
\* MaxRecords records.
RawRecords ==
    { Raw(1, 10, "electronics", TRUE), Raw(2, 20, "jewelery", TRUE),
      Raw(3, 15, "men's clothing", TRUE),
      Raw(4, 5, "toys", TRUE), Raw(5, 30, "electronics", FALSE) }

AllResponses ==
    {HttpError, NotArray}
        \cup {Array(d) : d \in UNION {[1..n -> RawRecords] : n \in 0..MaxRecords}}

NotFetched == [done |-> FALSE, result |-> Fetched(<<>>)]

InitFetch ==
    /\ apiResponse = HttpError
    /\ fetchOutcome = NotFetched

\* A call of fetchProducts receives a response and returns or throws.
FetchProductsCall(response) ==
    /\ apiResponse' = response
    /\ fetchOutcome' = [done |-> TRUE, result |-> fetchProducts(response)]

CACHE_DURATION == 5 * 60 * 1000

\* Date.now() is read in steps of a third of the cache duration, so that a
\* fetch can be issued at the very end of the five minutes.
TickMs == CACHE_DURATION \div 3

Null == [isNull |-> TRUE, value |-> 0]
NullList == [isNull |-> TRUE, value |-> <<>>]
Some(v) == [isNull |-> FALSE, value |-> v]

\* The cache check without the test of the force flag.
CacheHit_IgnoresForce(forceRefresh, now) ==
    /\ ~productCache.isNull
    /\ ~cacheTimestamp.isNull
    /\ now - cacheTimestamp.value < CACHE_DURATION

\* The cache check with the duration written in seconds.
CacheHit_DurationInSeconds(forceRefresh, now) ==
    /\ ~forceRefresh
    /\ ~productCache.isNull
    /\ ~cacheTimestamp.isNull
    /\ now - cacheTimestamp.value < 5 * 60

\* The cache check of fetchProductsWithCache, at time now.
CacheHit(forceRefresh, now) ==
    /\ ~forceRefresh
    /\ ~productCache.isNull
    /\ ~cacheTimestamp.isNull
    /\ now - cacheTimestamp.value < CACHE_DURATION

\* What a call of fetchProductsWithCache found and did on entry.
FetchCall(forceRefresh) ==
    [kind |-> "call", forced |-> forceRefresh, at |-> clock,
     network |-> ~CacheHit(forceRefresh, clock),
     \* what the call returned at once; a call that goes to the network returns later
     returned |-> IF CacheHit(forceRefresh, clock) THEN productCache ELSE NullList,
     cacheWas |-> productCache, timestampWas |-> cacheTimestamp,
     \* the call before this one was made less than CACHE_DURATION ago
     afterEarlier |-> clock - fetchLog.at < CACHE_DURATION]

-----------------------------------------------------------------------------
(* useProducts *)

NoError == ""

\* fetchedProducts.filter(p => p.category === category), or the list for 'all'
FilterBy(list, category) ==
    IF category = "all" THEN list
    ELSE SelectSeq(list, LAMBDA p : p.category = category)

\* The categories a caller selects: 'all', and one category that some of the
\* fetched lists have a product of and others have none of.
CategoryInputs == {"all", "electronics"}

\* A loadProducts call suspended at its await: the activeCategory its closure
\* captured and the `now` fetchProductsWithCache read on entry.
Pending(category) == [category |-> category, now |-> clock]

InitBrowse ==
    /\ productCache = NullList
    /\ cacheTimestamp = Null
    /\ clock = 0
    /\ products = <<>>
    /\ filteredProducts = <<>>
    /\ currentProductIndex = 0
    /\ activeCategory = "all"
    \* the mount effect has called loadProducts()
    /\ isLoading = TRUE
    /\ error = NoError
    /\ inflight = SetToBag({[category |-> "all", now |-> 0]})
    /\ fetchLog = [kind |-> "call", forced |-> FALSE, at |-> 0, network |-> TRUE,
                   returned |-> NullList, cacheWas |-> NullList, timestampWas |-> Null,
                   afterEarlier |-> FALSE]

\* loadProducts(forceRefresh) as called with `category` in its closure, on top
\* of the list and the filtered list the caller has just set: a cache hit runs
\* to the end; otherwise the call awaits the network.
LoadProducts(forceRefresh, category, curProducts, curFiltered) ==
    /\ fetchLog' = FetchCall(forceRefresh)
    /\ error' = NoError
    /\ IF CacheHit(forceRefresh, clock)
       THEN /\ products' = productCache.value
            /\ filteredProducts' = FilterBy(productCache.value, category)
            /\ isLoading' = FALSE
            /\ UNCHANGED inflight
       ELSE /\ BagCardinality(inflight) < MaxInflight
            /\ products' = curProducts
            /\ filteredProducts' = curFiltered
            /\ isLoading' = TRUE
            /\ inflight' = inflight (+) SetToBag({Pending(category)})
    /\ UNCHANGED <<productCache, cacheTimestamp, clock>>

\* setCategory that resets the index only when the category changes.
SetCategory_KeepsIndexOnReselect(category) ==
    /\ activeCategory' = category
    /\ IF category # activeCategory
       THEN /\ currentProductIndex' = 0
            /\ LoadProducts(FALSE, category, products, FilterBy(products, category))
       ELSE /\ filteredProducts' = FilterBy(products, category)
            /\ UNCHANGED <<currentProductIndex, products, isLoading, error, inflight,
                           cacheVars>>

\* setCategory(category); when activeCategory changes, loadProducts is a new
\* callback and the effect that depends on it calls it again.
SetCategory(category) ==
    /\ activeCategory' = category
    /\ currentProductIndex' = 0
    /\ IF category # activeCategory
       THEN LoadProducts(FALSE, category, products, FilterBy(products, category))
       ELSE /\ filteredProducts' = FilterBy(products, category)
            /\ UNCHANGED <<products, isLoading, error, inflight, cacheVars>>

\* refreshProducts(): loadProducts(true)
RefreshProducts ==
    /\ LoadProducts(TRUE, activeCategory, products, filteredProducts)
    /\ UNCHANGED <<activeCategory, currentProductIndex>>

\* A completion that forgets the cached list when fetchProducts throws.
FetchSettles_DropsCacheOnFailure(call, response) ==
    /\ BagIn(call, inflight)
    /\ inflight' = inflight (-) SetToBag({call})
    /\ isLoading' = FALSE
    /\ IF fetchProducts(response).threw
       THEN /\ error' = "Failed to fetch products"
            /\ productCache' = NullList
            /\ cacheTimestamp' = Null
            /\ UNCHANGED <<products, filteredProducts>>
       ELSE /\ productCache' = Some(fetchProducts(response).products)
            /\ cacheTimestamp' = Some(call.now)
            /\ products' = fetchProducts(response).products
            /\ filteredProducts' =
                   FilterBy(fetchProducts(response).products, call.category)
            /\ UNCHANGED error
    /\ UNCHANGED <<activeCategory, currentProductIndex, clock, fetchLog>>

\* The network answers a pending call: fetchProductsWithCache stores the
\* list and the `now` of its entry, and loadProducts sets the list and the list
\* filtered by the category of its closure; or fetchProducts throws and
\* loadProducts sets the error.
FetchSettles(call, response) ==
    /\ BagIn(call, inflight)
    /\ inflight' = inflight (-) SetToBag({call})
    /\ isLoading' = FALSE
    /\ IF fetchProducts(response).threw
       THEN /\ error' = "Failed to fetch products"
            /\ UNCHANGED <<products, filteredProducts, productCache, cacheTimestamp>>
       ELSE /\ productCache' = Some(fetchProducts(response).products)
            /\ cacheTimestamp' = Some(call.now)
            /\ products' = fetchProducts(response).products
            /\ filteredProducts' =
                   FilterBy(fetchProducts(response).products, call.category)
            /\ UNCHANGED error
    /\ UNCHANGED <<activeCategory, currentProductIndex, clock, fetchLog>>

setCurrentIndex_Unclamped(index) ==
    /\ currentProductIndex' = index
    /\ UNCHANGED <<products, filteredProducts, isLoading, error, activeCategory,
                   inflight, cacheVars>>

setCurrentIndex(index) ==
    /\ currentProductIndex' =
           IF Len(filteredProducts) = 0 THEN 0
           ELSE IF index < 0 THEN 0
           ELSE IF index > Len(filteredProducts) - 1 THEN Len(filteredProducts) - 1
           ELSE index
    /\ UNCHANGED <<products, filteredProducts, isLoading, error, activeCategory,
                   inflight, cacheVars>>

nextProduct ==
    /\ currentProductIndex' =
           IF Len(filteredProducts) = 0 THEN currentProductIndex
           ELSE (currentProductIndex + 1) % Len(filteredProducts)
    /\ UNCHANGED <<products, filteredProducts, isLoading, error, activeCategory,
                   inflight, cacheVars>>

previousProduct ==
    /\ currentProductIndex' =
           IF Len(filteredProducts) = 0 THEN currentProductIndex
           ELSE IF currentProductIndex = 0 THEN Len(filteredProducts) - 1
           ELSE currentProductIndex - 1
    /\ UNCHANGED <<products, filteredProducts, isLoading, error, activeCategory,
                   inflight, cacheVars>>

\* What currentProductIndex is set to by a nextProduct or previousProduct
\* callback whose closure holds `index` and a list of `length` products.
StepIndex(direction, index, length) ==
    IF direction = "next" THEN (index + 1) % length
    ELSE IF index = 0 THEN length - 1
    ELSE index - 1

\* The state after k calls of one callback created by one render: each call
\* computes from the index of its closure and sets the state to the result.
RECURSIVE AfterRequests(_, _, _, _, _)
AfterRequests(k, direction, closureIndex, length, current) ==
    IF k = 0 THEN current
    ELSE AfterRequests(k - 1, direction, closureIndex, length,
                       StepIndex(direction, closureIndex, length))

\* handleProductNavigate receives k navigation events of one direction before
\* the component renders again: the listener, and the nextProduct and
\* previousProduct it holds, are those of the last render.
handleProductNavigate(direction, k) ==
    /\ currentProductIndex' =
           IF Len(filteredProducts) = 0 THEN currentProductIndex
           ELSE AfterRequests(k, direction, currentProductIndex,
                              Len(filteredProducts), currentProductIndex)
    /\ UNCHANGED <<products, filteredProducts, isLoading, error, activeCategory,
                   inflight, cacheVars>>

Tick ==
    /\ clock + TickMs <= MaxTicks * TickMs
    /\ clock' = clock + TickMs
    /\ UNCHANGED <<productCache, cacheTimestamp, fetchLog, browseVars>>

-----------------------------------------------------------------------------
(* voiceFunctions and VoiceButton *)

SdkStatuses ==
    {"disconnected", "disconnecting", "connecting", "idle", "listening",
     "thinking", "speaking"}

VoiceOp(name) == [op |-> name, before |-> localStatus, sessionBefore |-> uvSession]

InitVoice ==
    /\ uvSession = "null"
    /\ isCreatingCall = FALSE
    /\ localStatus = "idle"
    /\ isActivating = FALSE
    /\ callPhase = "none"
    /\ lastVoiceOp = [op |-> "mount", before |-> "idle", sessionBefore |-> "null"]
    \* the monitoring effect has run once: an interval, and no session to listen to
    /\ mounted = TRUE
    /\ timers = 1
    /\ buttonListener = "none"
    /\ leaked = FALSE
    /\ endedSession = [status |-> "none", by |-> "none"]

isSessionActive == uvSession # "null"
getSessionStatus == uvSession

\* The status listener startCall attaches to the session.
StartCallListener(local, status) ==
    IF status \in {"idle", "listening", "speaking"} THEN status
    ELSE IF status = "disconnected" THEN "idle"
    ELSE local

\* The listener the monitoring effect attaches through addStatusListener.
ButtonListener(local, status) ==
    IF status = "listening" THEN "listening"
    ELSE IF status = "speaking" THEN "speaking"
    ELSE IF status \in {"idle", "disconnected"} /\ local \in {"listening", "speaking"}
         THEN "idle"
    ELSE local

\* What the interval callback of a poll that ignores a dead session would show.
PollStatus_IgnoresDisconnected(local, session) ==
    IF session = "null"
    THEN (IF local \in {"listening", "speaking"} THEN "idle" ELSE local)
    ELSE IF session = "listening" /\ local # "listening" THEN "listening"
    ELSE IF session = "speaking" /\ local # "speaking" THEN "speaking"
    ELSE IF session = "idle" /\ local \in {"listening", "speaking"} THEN "idle"
    ELSE local

\* The interval callback of the monitoring effect: the status it leaves shown.
PollStatus(local, session) ==
    IF session = "null"
    THEN (IF local \in {"listening", "speaking"} THEN "idle" ELSE local)
    ELSE IF session = "listening" /\ local # "listening" THEN "listening"
    ELSE IF session = "speaking" /\ local # "speaking" THEN "speaking"
    ELSE IF session \in {"idle", "disconnected"} /\ local \in {"listening", "speaking"}
         THEN "idle"
    ELSE local

\* The 300 ms interval fires.
Poll ==
    /\ localStatus' = PollStatus(localStatus, getSessionStatus)
    /\ lastVoiceOp' = VoiceOp("poll")
    /\ UNCHANGED <<uvSession, isCreatingCall, isActivating, callPhase>>

\* A click that starts an activation whatever the button shows.
ClickActivate_AnyStatus ==
    /\ lastVoiceOp' = VoiceOp("activate")
    /\ localStatus' = "connecting"
    /\ isActivating' = TRUE
    /\ isCreatingCall' = TRUE
    /\ uvSession' = "null"
    /\ callPhase' = "createCall"

\* handleClick on an idle or failed button: handleActivate up to the await of
\* createCall inside startCall (which first ends a session left over).
ClickActivate ==
    /\ ~isActivating
    /\ localStatus \in {"idle", "error"}
    /\ lastVoiceOp' = VoiceOp("activate")
    /\ IF isCreatingCall
       THEN \* startCall returns at once and handleActivate goes on
            /\ localStatus' = "listening"
            /\ UNCHANGED <<uvSession, isCreatingCall, isActivating, callPhase>>
       ELSE /\ localStatus' = "connecting"
            /\ isActivating' = TRUE
            /\ isCreatingCall' = TRUE
            /\ uvSession' = "null"
            /\ callPhase' = "createCall"

\* createCall settles: on success the session is created, its listeners and
\* tools are registered and joinCall is awaited; on failure startCall rethrows
\* and handleActivate shows the error.
CreateCallSettles(ok) ==
    /\ callPhase = "createCall"
    /\ lastVoiceOp' = VoiceOp(IF ok THEN "createCall" ELSE "createCallFailed")
    /\ IF ok
       THEN /\ uvSession' = "connecting"
            /\ callPhase' = "joinCall"
            /\ UNCHANGED <<isCreatingCall, localStatus, isActivating>>
       ELSE /\ uvSession' = "null"
            /\ isCreatingCall' = FALSE
            /\ localStatus' = "error"
            /\ isActivating' = FALSE
            /\ callPhase' = "none"

\* joinCall settles.
JoinCallSettles(ok) ==
    /\ callPhase = "joinCall"
    /\ lastVoiceOp' = VoiceOp(IF ok THEN "joinCall" ELSE "joinCallFailed")
    /\ isCreatingCall' = FALSE
    /\ isActivating' = FALSE
    /\ callPhase' = "none"
    /\ IF ok
       THEN /\ localStatus' = "listening"
            /\ UNCHANGED uvSession
       ELSE /\ localStatus' = "error"
            /\ uvSession' = "null"

\* The SDK moves the session to another status; its 'status' event reaches the
\* listeners with the status, or carries none and is missed.
SdkStatusChanges(status, delivered, attached) ==
    /\ isSessionActive
    /\ status # uvSession
    /\ uvSession' = status
    /\ lastVoiceOp' = VoiceOp("status")
    /\ localStatus' =
           IF ~delivered THEN localStatus
           ELSE IF attached
                THEN ButtonListener(StartCallListener(localStatus, status), status)
                ELSE StartCallListener(localStatus, status)
    /\ UNCHANGED <<isCreatingCall, isActivating, callPhase>>

\* handleClick on a listening or speaking button: handleDeactivate.
ClickDeactivate ==
    /\ ~isActivating
    /\ localStatus \in {"listening", "speaking"}
    /\ uvSession' = "null"
    /\ localStatus' = "idle"
    /\ lastVoiceOp' = VoiceOp("deactivate")
    /\ UNCHANGED <<isCreatingCall, isActivating, callPhase>>

\* handleClick while an activation is in progress or the button shows
\* connecting: it returns, or falls through both branches.
ClickIgnored ==
    /\ isActivating \/ localStatus = "connecting"
    /\ lastVoiceOp' = VoiceOp("clickIgnored")
    /\ UNCHANGED <<uvSession, isCreatingCall, localStatus, isActivating, callPhase>>

\* endCall() called by another component that shares the module's session.
endCall ==
    /\ isSessionActive
    /\ uvSession' = "null"
    /\ lastVoiceOp' = VoiceOp("endCall")
    /\ UNCHANGED <<isCreatingCall, localStatus, isActivating, callPhase>>

\* The session endCall (or the cleanup of a failed startCall) left in this
\* step: leaveCall() and uvSession = null; no listener is removed from it.
SessionEnded == uvSession # "null" /\ uvSession' = "null"

\* The monitoring effect's listener stays on the session it was added to.
ListenerAfterEnd ==
    IF buttonListener = "current" /\ SessionEnded THEN "ended" ELSE buttonListener

\* The cleanup returned by addStatusListener removes the handler from whatever
\* uvSession is when it runs: the handler goes only if it was added to a
\* session that is still the current one.
CleanupRemoves == ListenerAfterEnd = "current" /\ uvSession' # "null"

\* The monitoring effect after a step: when the shown status changed, the
\* effect of the previous render is cleaned up (clearInterval, cleanup()) and
\* the effect runs again (setInterval, addStatusListener).
EffectFollows ==
    IF mounted /\ localStatus' # localStatus
    THEN /\ timers' = (timers - 1) + 1
         /\ leaked' = (leaked \/ (ListenerAfterEnd # "none" /\ ~CleanupRemoves))
         /\ buttonListener' = IF uvSession' # "null" THEN "current" ELSE "none"
         /\ UNCHANGED mounted
    ELSE /\ buttonListener' = ListenerAfterEnd
         /\ UNCHANGED <<mounted, timers, leaked>>

\* A step of the voice layer, the monitoring effect and the ended session
\* following it.
MonitorFollows ==
    /\ EffectFollows
    /\ endedSession' = IF SessionEnded
                       THEN [status |-> uvSession, by |-> lastVoiceOp'.op]
                       ELSE endedSession

\* The session that was left goes on to disconnecting and disconnected, and
\* its 'status' events still reach the listener startCall added to it (and the
\* monitoring effect's, when that is on it).
EndedSessionStatusChanges(status, delivered) ==
    /\ endedSession.status \notin {"none", "disconnected"}
    /\ status \in {"disconnecting", "disconnected"}
    /\ status # endedSession.status
    /\ endedSession' = [endedSession EXCEPT !.status = status]
    /\ lastVoiceOp' = VoiceOp("endedStatus")
    /\ localStatus' =
           IF ~delivered \/ ~mounted THEN localStatus
           ELSE IF buttonListener = "ended"
                THEN ButtonListener(StartCallListener(localStatus, status), status)
                ELSE StartCallListener(localStatus, status)
    /\ UNCHANGED <<uvSession, isCreatingCall, isActivating, callPhase>>
    /\ EffectFollows

\* The voice button unmounts (the page shows its loading screen): the effect is
\* cleaned up.  The session is the module's and stays.
Unmount ==
    /\ mounted
    /\ callPhase = "none"
    /\ mounted' = FALSE
    /\ timers' = timers - 1
    /\ leaked' = (leaked \/ (buttonListener # "none"
                             /\ ~(buttonListener = "current" /\ uvSession # "null")))
    /\ buttonListener' = "none"
    /\ lastVoiceOp' = VoiceOp("unmount")
    /\ UNCHANGED <<uvSession, isCreatingCall, localStatus, isActivating, callPhase,
                   endedSession>>

\* The voice button mounts again, in its initial state; the effect runs.
Mount ==
    /\ ~mounted
    /\ mounted' = TRUE
    /\ localStatus' = "idle"
    /\ isActivating' = FALSE
    /\ timers' = timers + 1
    /\ buttonListener' = IF uvSession # "null" THEN "current" ELSE "none"
    /\ lastVoiceOp' = VoiceOp("mount")
    /\ UNCHANGED <<uvSession, isCreatingCall, callPhase, leaked, endedSession>>

\* The SDK moves the session to another status while no button is mounted.
SdkStatusChangesUnmounted(status) ==
    /\ ~mounted
    /\ isSessionActive
    /\ status # uvSession
    /\ uvSession' = status
    /\ lastVoiceOp' = VoiceOp("status")
    /\ UNCHANGED <<isCreatingCall, localStatus, isActivating, callPhase, monitorVars>>

\* startCall and endCall as functions of the module, whoever calls them.
\* leaveCall() of the session held, when there is one, and uvSession = null.
LeaveHeld == IF uvSession # "null" THEN liveSessions - 1 ELSE liveSessions

\* A startCall that does not look at isCreatingCall.
startCall_Unguarded ==
    /\ lastVoiceOp' = VoiceOp("startCall")
    /\ BagCardinality(starts) < MaxStarts
    /\ isCreatingCall' = TRUE
    /\ uvSession' = "null"
    /\ liveSessions' = LeaveHeld
    /\ starts' = starts (+) SetToBag({"createCall"})
    /\ UNCHANGED <<localStatus, isActivating, callPhase>>

\* startCall up to its await of createCall: it returns at once while another
\* is in progress, and otherwise sets the flag and ends the session held.
startCall ==
    /\ lastVoiceOp' = VoiceOp("startCall")
    /\ IF isCreatingCall
       THEN UNCHANGED <<uvSession, isCreatingCall, starts, liveSessions>>
       ELSE /\ BagCardinality(starts) < MaxStarts
            /\ isCreatingCall' = TRUE
            /\ uvSession' = "null"
            /\ liveSessions' = LeaveHeld
            /\ starts' = starts (+) SetToBag({"createCall"})
    /\ UNCHANGED <<localStatus, isActivating, callPhase>>

\* createCall settles for a startCall: with a join URL the session is
\* constructed and joinCall awaited; otherwise the catch leaves the session
\* held, if any, and the finally clears the flag.
StartCreateSettles(ok) ==
    /\ BagIn("createCall", starts)
    /\ lastVoiceOp' = VoiceOp("createCall")
    /\ IF ok
       THEN /\ uvSession' = "connecting"
            /\ liveSessions' = liveSessions + 1
            /\ starts' = (starts (-) SetToBag({"createCall"})) (+) SetToBag({"joinCall"})
            /\ UNCHANGED isCreatingCall
       ELSE /\ uvSession' = "null"
            /\ liveSessions' = LeaveHeld
            /\ starts' = starts (-) SetToBag({"createCall"})
            /\ isCreatingCall' = FALSE
    /\ UNCHANGED <<localStatus, isActivating, callPhase>>

\* joinCall settles for a startCall.
StartJoinSettles(ok) ==
    /\ BagIn("joinCall", starts)
    /\ lastVoiceOp' = VoiceOp("joinCall")
    /\ starts' = starts (-) SetToBag({"joinCall"})
    /\ isCreatingCall' = FALSE
    /\ IF ok
       THEN UNCHANGED <<uvSession, liveSessions>>
       ELSE /\ uvSession' = "null"
            /\ liveSessions' = LeaveHeld
    /\ UNCHANGED <<localStatus, isActivating, callPhase>>

-----------------------------------------------------------------------------
(* clientTools and the listeners of the main page *)

CLIENT_TOOL_EVENTS ==
    [updateCart |-> "jarvis:cart:update",
     navigateProduct |-> "jarvis:product:navigate",
     filterCategory |-> "jarvis:category:filter",
     readProductDetails |-> "jarvis:product:read",
     readCartSummary |-> "jarvis:cart:read",
     closeProduct |-> "jarvis:product:close",
     openCart |-> "jarvis:cart:open"]

\* The events the main page's effect adds a listener for.
ListenedEvents ==
    {"jarvis:product:navigate", "jarvis:category:filter", "jarvis:cart:update",
     "jarvis:product:read", "jarvis:product:close", "jarvis:cart:open"}

\* A tool implementation ran: the events it dispatched and, of these, the
\* ones the page had a listener for.
Invocation(tool, dispatched) ==
    [tool |-> tool, dispatched |-> dispatched,
     listened |-> {e \in SeqRange(dispatched) : e \in ListenedEvents}]

InitHome ==
    /\ selectedProduct = NoProduct
    /\ showCart = FALSE
    /\ lastTool = [tool |-> "none", dispatched |-> <<>>, listened |-> {}]

\* filteredProducts.findIndex(p => p.id === id): 0 where JS gives -1
FindIndexById(list, id) ==
    IF \E i \in 1..Len(list) : list[i].id = id
    THEN CHOOSE i \in 1..Len(list) :
             /\ list[i].id = id
             /\ \A j \in 1..(i - 1) : list[j].id # id
    ELSE 0

\* The parameters the remote model may pass to updateCart; a parameter left
\* out is 0.
CartActions == {"add", "remove", "clear", "update"}
ToolProductIds == {0, 2}
ToolQuantities == {0, 2}

\* updateCart: dispatchCartUpdate, then handleCartUpdate of the main page.
ToolUpdateCart(action, productId, quantity) ==
    /\ lastTool' = Invocation("updateCart", <<CLIENT_TOOL_EVENTS.updateCart>>)
    /\ IF action = "add" /\ selectedProduct # NoProduct
       THEN HookAddToCart(selectedProduct, IF quantity = 0 THEN 1 ELSE quantity)
       ELSE IF action = "remove" /\ productId # 0
       THEN HookRemoveFromCart(productId)
       ELSE IF action = "clear"
       THEN HookClearCart
       ELSE UNCHANGED cartVars
    /\ UNCHANGED <<selectedProduct, showCart, cacheVars, browseVars>>

\* navigateProduct: dispatchProductNavigate, then handleProductNavigate.
ToolNavigateProduct(direction) ==
    /\ lastTool' = Invocation("navigateProduct",
                              <<CLIENT_TOOL_EVENTS.navigateProduct>>)
    /\ IF selectedProduct # NoProduct
       THEN /\ selectedProduct' =
                   LET i == FindIndexById(filteredProducts, selectedProduct.id)
                   IN  IF direction = "next"
                       THEN (IF i < Len(filteredProducts)
                             THEN filteredProducts[i + 1] ELSE selectedProduct)
                       ELSE (IF i > 1
                             THEN filteredProducts[i - 1] ELSE selectedProduct)
            /\ UNCHANGED <<cacheVars, browseVars>>
       ELSE /\ UNCHANGED selectedProduct
            /\ IF Len(filteredProducts) = 0 THEN UNCHANGED <<cacheVars, browseVars>>
               ELSE IF direction = "next" THEN nextProduct
               ELSE previousProduct
    /\ UNCHANGED <<showCart, cartVars>>

\* filterCategory: dispatchCategoryFilter, then handleCategoryFilter.
ToolFilterCategory(category) ==
    /\ lastTool' = Invocation("filterCategory",
                              <<CLIENT_TOOL_EVENTS.filterCategory>>)
    /\ SetCategory(category)
    /\ selectedProduct' = NoProduct
    /\ UNCHANGED <<showCart, cartVars>>

\* readProductDetails: dispatchReadProduct(0), then handleReadProduct.
ToolReadProductDetails ==
    /\ lastTool' = Invocation("readProductDetails",
                              <<CLIENT_TOOL_EVENTS.readProductDetails>>)
    /\ selectedProduct' =
           IF Len(filteredProducts) > 0 THEN filteredProducts[1] ELSE selectedProduct
    /\ UNCHANGED <<showCart, cartVars, cacheVars, browseVars>>

\* readCartSummary: dispatchReadCart; nothing listens.
ToolReadCartSummary ==
    /\ lastTool' = Invocation("readCartSummary",
                              <<CLIENT_TOOL_EVENTS.readCartSummary>>)
    /\ UNCHANGED <<selectedProduct, showCart, cartVars, cacheVars, browseVars>>

\* closeProduct: dispatchCloseProduct, then handleCloseProduct.
ToolCloseProduct ==
    /\ lastTool' = Invocation("closeProduct",
                              <<CLIENT_TOOL_EVENTS.closeProduct>>)
    /\ selectedProduct' = NoProduct
    /\ UNCHANGED <<showCart, cartVars, cacheVars, browseVars>>

\* openCart: dispatchOpenCart, then handleOpenCart.
ToolOpenCart ==
    /\ lastTool' = Invocation("openCart", <<CLIENT_TOOL_EVENTS.openCart>>)
    /\ showCart' = TRUE
    /\ UNCHANGED <<selectedProduct, cartVars, cacheVars, browseVars>>

\* A product tile is clicked.
handleProductClick(i) ==
    /\ i \in 1..Len(filteredProducts)
    /\ selectedProduct' = filteredProducts[i]
    /\ UNCHANGED <<showCart, lastTool, cartVars, cacheVars, browseVars>>

\* The detail renders its next button (and takes a left swipe) only when the
\* product shown is not the last of the filtered list, and its previous button
\* only when it is not the first.
hasNext ==
    /\ selectedProduct # NoProduct
    /\ FindIndexById(filteredProducts, selectedProduct.id) - 1 < Len(filteredProducts) - 1

hasPrevious ==
    /\ selectedProduct # NoProduct
    /\ FindIndexById(filteredProducts, selectedProduct.id) - 1 > 0

\* The next and previous buttons of the product detail.
handleNextProduct ==
    /\ hasNext
    /\ selectedProduct' =
           IF selectedProduct = NoProduct THEN selectedProduct
           ELSE LET i == FindIndexById(filteredProducts, selectedProduct.id)
                IN  IF i < Len(filteredProducts)
                    THEN filteredProducts[i + 1] ELSE selectedProduct
    /\ UNCHANGED <<showCart, lastTool, cartVars, cacheVars, browseVars>>

handlePreviousProduct ==
    /\ hasPrevious
    /\ selectedProduct' =
           IF selectedProduct = NoProduct THEN selectedProduct
           ELSE LET i == FindIndexById(filteredProducts, selectedProduct.id)
                IN  IF i > 1
                    THEN filteredProducts[i - 1] ELSE selectedProduct
    /\ UNCHANGED <<showCart, lastTool, cartVars, cacheVars, browseVars>>

\* The index, in the filtered list, of the product the page shows: the one of
\* the open detail, or else the hook's current product.
ShownIndex ==
    IF selectedProduct # NoProduct
    THEN FindIndexById(filteredProducts, selectedProduct.id) - 1
    ELSE currentProductIndex

\* The hook and the cache once the load of the mount effect has settled with
\* a list: the page leaves its loading screen and renders the voice assistant.
InitLoaded ==
    /\ \E r \in Responses :
           /\ ~fetchProducts(r).threw
           /\ productCache = Some(fetchProducts(r).products)
           /\ products = fetchProducts(r).products
           /\ filteredProducts = fetchProducts(r).products
    /\ cacheTimestamp = Some(0)
    /\ clock = 0
    /\ currentProductIndex = 0
    /\ activeCategory = "all"
    /\ isLoading = FALSE
    /\ error = NoError
    /\ inflight = EmptyBag
    /\ fetchLog = [kind |-> "call", forced |-> FALSE, at |-> 0, network |-> TRUE,
                   returned |-> NullList, cacheWas |-> NullList, timestampWas |-> Null,
                   afterEarlier |-> FALSE]

-----------------------------------------------------------------------------
(* Specifications *)

\* No startCall is in progress and no session has been constructed.
InitStart ==
    /\ starts = EmptyBag
    /\ liveSessions = 0

\* No updateCart invocation has been made.
NoCall ==
    [action |-> "none", productId |-> 0, quantity |-> 0,
     before |-> [items |-> <<>>, subtotal |-> 0], detail |-> FALSE, answer |-> ""]

\* No browsing request has been made.
NoNav == [op |-> "none", index |-> 0, before |-> 0, length |-> 0, same |-> FALSE]

InitAll ==
    /\ InitCart /\ InitBrowse /\ InitVoice /\ InitHome /\ InitFetch
    /\ lastNav = NoNav
    /\ storageFails = FALSE
    /\ toolCall = NoCall /\ InitStart

\* The cart hook and its storage.
NextCart ==
    \/ \E p \in AllProducts, q \in QtyInputs :
           HookAddToCart(p, q) /\ UNCHANGED notCart
    \/ \E pid \in AllProductIds :
           HookRemoveFromCart(pid) /\ UNCHANGED notCart
    \/ \E pid \in AllProductIds, q \in QtyInputs :
           HookUpdateQuantity(pid, q)
               /\ UNCHANGED notCart
    \/ HookClearCart /\ UNCHANGED notCart
    \/ \E P \in Catalogs :
           ProductsChanged(P) /\ UNCHANGED notCart
    \/ Reload /\ UNCHANGED notCart

SpecCart == InitAll /\ [][NextCart]_vars

\* The cart hook over a localStorage that may throw and may hold an entry
\* that does not parse.
notStorage ==
    <<cacheVars, browseVars, voiceVars, monitorVars, homeVars, fetchVars, lastNav,
      toolCall, startVars>>

InitSpecStorage ==
    /\ InitBrowse /\ InitVoice /\ InitHome /\ InitFetch
    /\ lastNav = NoNav
    /\ cart = [items |-> <<>>, subtotal |-> 0]
    /\ storage \in InitialEntries \cup {Truncated(<< [productId |-> 1, quantity |-> 2] >>)}
    /\ cartProducts = <<>>
    /\ storageFails \in BOOLEAN
    /\ toolCall = NoCall /\ InitStart
    /\ lastOp = Op("mount", NoProduct, 0, 0, FALSE)

NextStorage ==
    \/ \E p \in SeqRange(CatalogA), q \in {0, 1} :
           HookAddToCart(p, q) /\ UNCHANGED notCart
    \/ \E pid \in {1, 3} :
           HookRemoveFromCart(pid) /\ UNCHANGED notCart
    \/ \E q \in {0, MaxQty} :
           HookUpdateQuantity(1, q) /\ UNCHANGED notCart
    \/ HookClearCart /\ UNCHANGED notCart
    \/ ProductsChanged(CatalogA) /\ UNCHANGED notCart
    \/ Reload /\ UNCHANGED notCart
    \/ StorageChanges /\ UNCHANGED notStorage

SpecStorage == InitSpecStorage /\ [][NextStorage]_vars

\* The browsing hook and the product cache.
InitSpecBrowse == InitAll /\ storage = NoEntry

NextBrowse ==
    \/ \E c \in CategoryInputs :
           SetCategory(c) /\ UNCHANGED notBrowse
    \/ RefreshProducts /\ UNCHANGED notBrowse
    \/ \E call \in BagToSet(inflight), r \in Responses :
           FetchSettles(call, r) /\ UNCHANGED notBrowse
    \/ \E i \in (0 - 1)..2 :
           setCurrentIndex(i) /\ UNCHANGED notBrowse
    \/ nextProduct /\ UNCHANGED notBrowse
    \/ previousProduct /\ UNCHANGED notBrowse
    \/ Tick /\ UNCHANGED notBrowse

SpecBrowse == InitSpecBrowse /\ [][NextBrowse]_vars

\* The voice button and the session; the interval fires for as long as the
\* button is mounted.
NextVoice ==
    \/ Poll /\ MonitorFollows /\ UNCHANGED notVoice
    \/ ClickActivate /\ MonitorFollows /\ UNCHANGED notVoice
    \/ \E ok \in BOOLEAN :
           CreateCallSettles(ok) /\ MonitorFollows /\ UNCHANGED notVoice
    \/ \E ok \in BOOLEAN :
           JoinCallSettles(ok) /\ MonitorFollows /\ UNCHANGED notVoice
    \/ \E s \in SdkStatuses, delivered \in BOOLEAN, attached \in BOOLEAN :
           SdkStatusChanges(s, delivered, attached)
               /\ MonitorFollows /\ UNCHANGED notVoice
    \/ ClickDeactivate /\ MonitorFollows /\ UNCHANGED notVoice
    \/ ClickIgnored /\ MonitorFollows /\ UNCHANGED notVoice
    \/ endCall /\ MonitorFollows /\ UNCHANGED notVoice
    \/ \E s \in SdkStatuses, delivered \in BOOLEAN :
           EndedSessionStatusChanges(s, delivered) /\ UNCHANGED notVoice

PollFires == Poll /\ MonitorFollows /\ UNCHANGED notVoice

InitSpecVoice == InitAll /\ storage = NoEntry

SpecVoice == InitSpecVoice /\ [][NextVoice]_vars /\ WF_vars(PollFires)

\* The voice layer with the button unmounting and mounting again, as it does
\* each time the page shows its loading screen.  A handler of the button runs
\* only while the button is mounted.
NextVoiceMount ==
    \/ mounted /\ Poll /\ MonitorFollows /\ UNCHANGED notVoice
    \/ mounted /\ ClickActivate /\ MonitorFollows /\ UNCHANGED notVoice
    \/ \E ok \in BOOLEAN :
           CreateCallSettles(ok) /\ MonitorFollows /\ UNCHANGED notVoice
    \/ \E ok \in BOOLEAN :
           JoinCallSettles(ok) /\ MonitorFollows /\ UNCHANGED notVoice
    \/ \E s \in SdkStatuses, delivered \in BOOLEAN, attached \in BOOLEAN :
           mounted /\ SdkStatusChanges(s, delivered, attached)
               /\ MonitorFollows /\ UNCHANGED notVoice
    \/ \E s \in SdkStatuses :
           SdkStatusChangesUnmounted(s) /\ UNCHANGED notVoice
    \/ mounted /\ ClickDeactivate /\ MonitorFollows /\ UNCHANGED notVoice
    \/ mounted /\ ClickIgnored /\ MonitorFollows /\ UNCHANGED notVoice
    \/ endCall /\ MonitorFollows /\ UNCHANGED notVoice
    \/ \E s \in SdkStatuses, delivered \in BOOLEAN :
           EndedSessionStatusChanges(s, delivered) /\ UNCHANGED notVoice
    \/ Unmount /\ UNCHANGED notVoice
    \/ Mount /\ UNCHANGED notVoice

InitSpecVoiceMount == InitAll /\ storage = NoEntry

SpecVoiceMount == InitSpecVoiceMount /\ [][NextVoiceMount]_vars

\* startCall and endCall called at any time by any caller.
notStart ==
    <<cartVars, cacheVars, browseVars, monitorVars, homeVars, fetchVars, lastNav,
      storageFails, toolCall>>

InitSpecStart == InitAll /\ storage = NoEntry

NextStart ==
    \/ startCall /\ UNCHANGED notStart
    \/ \E ok \in BOOLEAN : StartCreateSettles(ok) /\ UNCHANGED notStart
    \/ \E ok \in BOOLEAN : StartJoinSettles(ok) /\ UNCHANGED notStart
    \/ endCall /\ liveSessions' = LeaveHeld /\ UNCHANGED <<starts, notStart>>
    \/ \E s \in SdkStatuses :
           /\ isSessionActive
           /\ s # uvSession
           /\ uvSession' = s
           /\ lastVoiceOp' = VoiceOp("status")
           /\ UNCHANGED <<isCreatingCall, localStatus, isActivating, callPhase,
                          startVars, notStart>>

SpecStart == InitSpecStart /\ [][NextStart]_vars

\* The voice tools and the main page that listens to their events.  A tool is
\* invoked in a voice session, and a session is started from the voice button,
\* which the page renders once its first load has settled.
InitSpecBridge ==
    /\ InitCart /\ storage = NoEntry /\ InitLoaded /\ InitVoice /\ InitHome
    /\ InitFetch /\ lastNav = NoNav /\ storageFails = FALSE /\ toolCall = NoCall /\ InitStart

NextBridge ==
    \/ \E a \in CartActions, pid \in ToolProductIds, q \in ToolQuantities :
           ToolUpdateCart(a, pid, q) /\ UNCHANGED notBridge
    \/ \E d \in {"next", "previous"} : ToolNavigateProduct(d) /\ UNCHANGED notBridge
    \/ \E c \in CategoryInputs : ToolFilterCategory(c) /\ UNCHANGED notBridge
    \/ ToolReadProductDetails /\ UNCHANGED notBridge
    \/ ToolReadCartSummary /\ UNCHANGED notBridge
    \/ ToolCloseProduct /\ UNCHANGED notBridge
    \/ ToolOpenCart /\ UNCHANGED notBridge
    \/ \E i \in 1..2 : handleProductClick(i) /\ UNCHANGED notBridge

SpecBridge == InitSpecBridge /\ [][NextBridge]_vars

\* The browsing index: the hook's navigation and category handlers, the voice
\* filter tool, and the loads a category change starts.  Each step records the
\* request: the index asked for, the index and the length of the filtered list
\* before it, and whether the category asked for was the active one.
Nav(op, index, same) ==
    [op |-> op, index |-> index, before |-> currentProductIndex,
     length |-> Len(filteredProducts), same |-> same]

NavResponses ==
    { Array(<< Raw(1, 10, "electronics", TRUE), Raw(2, 20, "jewelery", TRUE),
               Raw(3, 15, "men's clothing", TRUE) >>),
      Array(<< Raw(2, 20, "jewelery", TRUE), Raw(3, 15, "men's clothing", TRUE) >>),
      Array(<< Raw(1, 10, "electronics", TRUE), Raw(5, 30, "electronics", FALSE) >>) }

IndexInputs == (0 - 1)..MaxIndex

Directions == {"next", "previous"}

notNav == <<cartVars, voiceVars, monitorVars, fetchVars, storageFails, toolCall, startVars>>

InitSpecNav == InitAll /\ storage = NoEntry

NextNav ==
    \/ \E c \in CategoryInputs :
           /\ SetCategory(c)
           /\ lastNav' = Nav("setCategory", 0, c = activeCategory)
           /\ UNCHANGED <<homeVars, notNav>>
    \/ \E c \in CategoryInputs :
           /\ ToolFilterCategory(c)
           /\ lastNav' = Nav("filterCategory", 0, c = activeCategory)
           /\ UNCHANGED notNav
    \/ /\ RefreshProducts
       /\ lastNav' = Nav("refresh", 0, FALSE)
       /\ UNCHANGED <<homeVars, notNav>>
    \/ \E call \in BagToSet(inflight), r \in NavResponses :
           /\ FetchSettles(call, r)
           /\ lastNav' = Nav("load", 0, FALSE)
           /\ UNCHANGED <<homeVars, notNav>>
    \/ \E i \in IndexInputs :
           /\ setCurrentIndex(i)
           /\ lastNav' = Nav("setCurrentIndex", i, FALSE)
           /\ UNCHANGED <<homeVars, notNav>>
    \/ /\ nextProduct
       /\ lastNav' = Nav("next", 0, FALSE)
       /\ UNCHANGED <<homeVars, notNav>>
    \/ /\ previousProduct
       /\ lastNav' = Nav("previous", 0, FALSE)
       /\ UNCHANGED <<homeVars, notNav>>
    \/ \E direction \in Directions, k \in 1..MaxBatch :
           /\ handleProductNavigate(direction, k)
           /\ lastNav' = Nav(IF direction = "next" THEN "nextRequests"
                              ELSE "previousRequests", k, FALSE)
           /\ UNCHANGED <<homeVars, notNav>>

SpecNav == InitSpecNav /\ [][NextNav]_vars

\* The cache under loads that succeed and fail: every step records what it was,
\* and a completion records the response fetchProducts received and its outcome.
notCache == <<cartVars, voiceVars, monitorVars, homeVars, storageFails, toolCall, startVars>>

InitSpecCache == InitAll /\ storage = NoEntry

NextCache ==
    \/ \E c \in CategoryInputs :
           /\ SetCategory(c)
           /\ lastNav' = Nav("setCategory", 0, c = activeCategory)
           /\ UNCHANGED <<fetchVars, notCache>>
    \/ /\ RefreshProducts
       /\ lastNav' = Nav("refresh", 0, FALSE)
       /\ UNCHANGED <<fetchVars, notCache>>
    \/ \E call \in BagToSet(inflight), r \in Responses :
           /\ FetchSettles(call, r)
           /\ FetchProductsCall(r)
           /\ lastNav' = Nav("load", 0, FALSE)
           /\ UNCHANGED notCache
    \/ /\ Tick
       /\ lastNav' = Nav("tick", 0, FALSE)
       /\ UNCHANGED <<fetchVars, notCache>>

SpecCache == InitSpecCache /\ [][NextCache]_vars

\* Navigation in the page: the navigateProduct tool, the buttons of the
\* detail, opening and closing the detail, and the category filter, which the
\* cache answers.  Each step
\* records the index of the product shown before it and whether a detail was
\* open.
AppNav(op) ==
    [op |-> op, index |-> 0, before |-> ShownIndex,
     length |-> Len(filteredProducts), same |-> selectedProduct # NoProduct]

InitSpecAppNav ==
    /\ InitCart /\ storage = NoEntry /\ InitLoaded /\ InitVoice /\ InitHome
    /\ InitFetch /\ lastNav = NoNav /\ storageFails = FALSE /\ toolCall = NoCall /\ InitStart

NextAppNav ==
    \/ \E d \in {"next", "previous"} :
           /\ ToolNavigateProduct(d)
           /\ lastNav' = AppNav(d)
           /\ UNCHANGED <<voiceVars, monitorVars, fetchVars, storageFails, toolCall, startVars>>
    \/ /\ handleNextProduct
       /\ lastNav' = AppNav("next")
       /\ UNCHANGED <<voiceVars, monitorVars, fetchVars, storageFails, toolCall, startVars>>
    \/ /\ handlePreviousProduct
       /\ lastNav' = AppNav("previous")
       /\ UNCHANGED <<voiceVars, monitorVars, fetchVars, storageFails, toolCall, startVars>>
    \/ \E i \in 1..2 :
           /\ handleProductClick(i)
           /\ lastNav' = AppNav("open")
           /\ UNCHANGED <<voiceVars, monitorVars, fetchVars, storageFails, toolCall, startVars>>
    \/ /\ ToolReadProductDetails
       /\ lastNav' = AppNav("readProductDetails")
       /\ UNCHANGED <<voiceVars, monitorVars, fetchVars, storageFails, toolCall, startVars>>
    \/ /\ ToolCloseProduct
       /\ lastNav' = AppNav("close")
       /\ UNCHANGED <<voiceVars, monitorVars, fetchVars, storageFails, toolCall, startVars>>
    \/ \E c \in CategoryInputs :
           /\ ToolFilterCategory(c)
           /\ lastNav' = AppNav("filterCategory")
           /\ UNCHANGED <<voiceVars, monitorVars, fetchVars, storageFails, toolCall, startVars>>

SpecAppNav == InitSpecAppNav /\ [][NextAppNav]_vars

\* The updateCart tool in the page, with a product detail opened and closed
\* between invocations.  Each invocation records its parameters (0 for one left
\* out), the cart it found, whether a detail was open, and its answer.
Call(action, productId, quantity) ==
    [action |-> action, productId |-> productId, quantity |-> quantity,
     before |-> cart, detail |-> selectedProduct # NoProduct,
     answer |-> "completed successfully"]

notToolCart == <<voiceVars, monitorVars, fetchVars, lastNav, storageFails, startVars>>

InitSpecToolCart ==
    /\ InitCart /\ storage = NoEntry /\ InitLoaded /\ InitVoice /\ InitHome
    /\ InitFetch /\ lastNav = NoNav /\ storageFails = FALSE /\ toolCall = NoCall /\ InitStart

NextToolCart ==
    \/ \E a \in CartActions, pid \in ToolProductIds, q \in ToolQuantities :
           /\ ToolUpdateCart(a, pid, q)
           /\ toolCall' = Call(a, pid, q)
           /\ UNCHANGED notToolCart
    \/ \E i \in 1..2 :
           /\ handleProductClick(i)
           /\ toolCall' = NoCall
           /\ UNCHANGED notToolCart
    \/ /\ ToolCloseProduct
       /\ toolCall' = NoCall
       /\ UNCHANGED notToolCart

SpecToolCart == InitSpecToolCart /\ [][NextToolCart]_vars

\* fetchProducts applied to every response of up to MaxRecords records.
notFetch ==
    <<cartVars, cacheVars, browseVars, voiceVars, monitorVars, homeVars, lastNav,
      storageFails, toolCall, startVars>>

InitSpecFetch == InitAll /\ storage = NoEntry

NextFetch ==
    \/ \E r \in AllResponses : FetchProductsCall(r) /\ UNCHANGED notFetch

SpecFetch == InitSpecFetch /\ [][NextFetch]_vars

-----------------------------------------------------------------------------
(* Cart claims *)

\* The sum over the cart lines of price x quantity, taken line by line.
RECURSIVE SumLines(_)
SumLines(items) ==
    IF items = <<>> THEN 0
    ELSE Head(items).product.price * Head(items).quantity + SumLines(Tail(items))

IsMutation(o) == o.op \in {"add", "remove", "update", "clear"} /\ ~o.threw

\* C1: in every reachable cart state the stored subtotal equals the sum over
\* the cart lines of price x quantity.
C1_SubtotalIsSum == cart.subtotal = SumLines(cart.items)

C1_Witness ==
    /\ lastOp.op = "update" /\ ~lastOp.threw
    /\ Len(cart.items) = 2
    /\ \E i \in 1..2 : cart.items[i].product.id = lastOp.productId
    /\ cart.subtotal > 0

\* The persisted {productId, quantity} pairs are exactly the lines of the cart;
\* an absent entry has no pairs.
StorageAgrees == storage.items = PersistedItems(cart.items)

\* C2: a cart mutation made through the hook leaves the persisted entry in
\* agreement with the in-memory cart: when the entry agreed with the cart before
\* a successful add, remove, update or clear, it agrees with the cart after it.
C2_StorageFollowsMutation ==
    (IsMutation(lastOp)
        /\ lastOp.beforeStore.items = PersistedItems(lastOp.before.items))
    => StorageAgrees

\* C3: with the cart holding the one line that adding p with quantity a to the
\* empty cart gives, adding p again with quantity b yields exactly one line for
\* p with quantity a + b and subtotal price(p) x (a + b).
C3_AddTwiceMerges ==
    \A p \in AllProducts, a \in 1..MaxLineQty :
        ( /\ lastOp.op = "add" /\ ~lastOp.threw /\ lastOp.product = p
          /\ lastOp.before = [items |-> <<[product |-> p, quantity |-> a]>>,
                              subtotal |-> p.price * a] )
        => cart = [items |-> <<[product |-> p, quantity |-> a + lastOp.quantity]>>,
                   subtotal |-> p.price * (a + lastOp.quantity)]

C3_Witness ==
    /\ lastOp.op = "add" /\ ~lastOp.threw
    /\ Len(lastOp.before.items) = 1
    /\ lastOp.before.items[1].product = lastOp.product
    /\ lastOp.before.items[1].quantity = 1
    /\ lastOp.quantity = 2
    /\ lastOp.before.subtotal = lastOp.product.price

\* C4: in every reachable cart state no two cart lines refer to the same
\* product id.
C4_UniqueProductIds ==
    \A i, j \in 1..Len(cart.items) :
        i # j => cart.items[i].product.id # cart.items[j].product.id

C4_Witness ==
    /\ lastOp.op = "add" /\ ~lastOp.threw
    /\ Len(lastOp.before.items) = 2
    /\ findIndex(lastOp.before.items, lastOp.productId) = 2
    /\ Len(cart.items) = 2

\* The lines of c whose product id occurs in the product list P.
KeptLines(c, P) == SelectSeq(c.items, LAMBDA it : HasProduct(P, it.product.id))

\* The load effect has just read, against the product list cartProducts, an
\* entry that was the save of the cart held before.
LoadedSavedCart ==
    /\ lastOp.op = "load"
    /\ Len(cartProducts) > 0
    /\ lastOp.beforeStore = saveCart(lastOp.before)

\* C5 (as amended): loading a saved cart against a product list P yields exactly
\* the saved lines whose product id occurs in P, in the same order and with the
\* same quantities, each carrying the product record P holds for that id, and
\* the subtotal recomputed from those lines; when P holds, for every saved
\* line, the very product record of that line, the loaded cart is identical to
\* the saved one.
C5_RoundTrip ==
    LoadedSavedCart =>
        /\ PersistedItems(cart.items)
              = PersistedItems(KeptLines(lastOp.before, cartProducts))
        /\ \A i \in 1..Len(cart.items) :
              cart.items[i].product
                  = FindProduct(cartProducts, cart.items[i].product.id)
        /\ cart.subtotal = SumLines(cart.items)
        /\ (\A i \in 1..Len(lastOp.before.items) :
                lastOp.before.items[i].product \in SeqRange(cartProducts))
              => cart = lastOp.before

\* C5 (as claimed): when P contains every saved id the loaded cart is identical
\* (items and subtotal) to the saved one.
C5_Original ==
    ( /\ LoadedSavedCart
      /\ \A i \in 1..Len(lastOp.before.items) :
            HasProduct(cartProducts, lastOp.before.items[i].product.id) )
    => cart = lastOp.before

\* A saved cart of two lines is loaded against a list that lacks one of them.
C5_Witness ==
    /\ LoadedSavedCart
    /\ Len(lastOp.before.items) = 2
    /\ Len(cart.items) = 1

\* C6: an add or an update with a quantity <= 0 throws and leaves the cart
\* (items and subtotal) exactly as it was.
C6_NonPositiveRejected ==
    (lastOp.op \in {"add", "update"} /\ lastOp.quantity <= 0)
        => (lastOp.threw /\ cart = lastOp.before)

C6_Witness ==
    /\ lastOp.op = "update" /\ lastOp.threw /\ lastOp.quantity <= 0
    /\ findIndex(cart.items, lastOp.productId) >= 1

-----------------------------------------------------------------------------
(* Voice status claims *)

\* The status shown agrees with the session: listening and speaking are
\* mirrored, and no session, an idle session or a disconnected one is not shown
\* as listening or speaking.
VoiceAgrees ==
    /\ uvSession \in {"listening", "speaking"} => localStatus = uvSession
    /\ uvSession \in {"null", "idle", "disconnected"}
           => localStatus \notin {"listening", "speaking"}

\* A poll that found the button showing listening or speaking over an ended or
\* dead session left it showing idle.
PollShowsIdle ==
    (/\ lastVoiceOp.op = "poll"
     /\ lastVoiceOp.before \in {"listening", "speaking"}
     /\ uvSession \in {"null", "idle", "disconnected"}) => localStatus = "idle"

\* C7: while the button is mounted, every poll leaves the status shown in
\* agreement with the session (listening and speaking mirrored, an ended or dead
\* session shown as idle), and, the interval firing again and again, a status
\* that disagrees with the session never stays: it leads to agreement.
C7_PollReconciles ==
    /\ [](lastVoiceOp.op = "poll" => (VoiceAgrees /\ PollShowsIdle))
    /\ (~VoiceAgrees ~> VoiceAgrees)

\* A poll found the button listening over a session that had died with its
\* status event missed, and reset it to idle.
C7_Witness ==
    /\ lastVoiceOp.op = "poll"
    /\ lastVoiceOp.before = "listening"
    /\ uvSession = "disconnected"
    /\ localStatus = "idle"

-----------------------------------------------------------------------------
(* Tool bridge claims *)

\* C8: every invocation of one of the seven voice tools dispatches exactly one
\* event, of the name mapped to the tool, and the page has a listener
\* registered for that event.
C8_EveryToolEventHandled ==
    lastTool.tool # "none" =>
        /\ Len(lastTool.dispatched) = 1
        /\ lastTool.dispatched[1] = CLIENT_TOOL_EVENTS[lastTool.tool]
        /\ lastTool.listened = {lastTool.dispatched[1]}

-----------------------------------------------------------------------------
(* Browsing and cache claims *)

\* C9: in every state of the browsing hook the filtered list is the products
\* whose category is the active category, or the whole list when the active
\* category is "all".
C9_FilteredIsProjection == filteredProducts = FilterBy(products, activeCategory)

C11_ForcedFetchGoesToNetwork == fetchLog.forced => fetchLog.network

\* A forced fetch was issued over a cache filled less than five minutes before,
\* and went to the network.
C11_Witness ==
    /\ fetchLog.forced
    /\ fetchLog.network
    /\ ~fetchLog.cacheWas.isNull
    /\ ~fetchLog.timestampWas.isNull
    /\ fetchLog.at - fetchLog.timestampWas.value < CACHE_DURATION

-----------------------------------------------------------------------------
(* Fetch validation claims *)

\* The records of a response that have the required shape and a category of
\* the enum, in response order, as products.
ValidRecords(response) ==
    LET valid == SelectSeq(response.data,
                           LAMBDA r : r.shapeOk /\ r.category \in ValidCategories)
    IN  [i \in 1..Len(valid) |-> Prod(valid[i].id, valid[i].price, valid[i].category)]

\* C12: for a response that is an array, the fetch returns exactly the records
\* that pass shape and category validation, in response order, when there is at
\* least one, and throws on validation grounds exactly when there is none.
C12_KeepsValidRecords ==
    (fetchOutcome.done /\ apiResponse.ok /\ apiResponse.isArray) =>
        /\ Len(ValidRecords(apiResponse)) > 0 =>
               /\ ~fetchOutcome.result.threw
               /\ fetchOutcome.result.products = ValidRecords(apiResponse)
        /\ Len(ValidRecords(apiResponse)) = 0 =>
               /\ fetchOutcome.result.threw
               /\ fetchOutcome.result.reason = "no record parsed"

\* A response of three records, the middle one invalid, gave the two others in
\* order.
C12_Witness ==
    /\ fetchOutcome.done
    /\ Len(apiResponse.data) = 3
    /\ ~apiResponse.data[2].shapeOk
    /\ ~fetchOutcome.result.threw
    /\ Len(fetchOutcome.result.products) = 2
    /\ fetchOutcome.result.products[1].id = 2
    /\ fetchOutcome.result.products[2].id = 1

\* C13: after a call is ended no voice session is active, and no later event
\* of the ended session changes the status the button shows, its listeners
\* having been torn down with it.
C13_EndedSessionIsSilent ==
    /\ lastVoiceOp.op \in {"deactivate", "endCall"} => uvSession = "null"
    /\ lastVoiceOp.op = "endedStatus" /\ endedSession.by \in {"deactivate", "endCall"}
           => localStatus = lastVoiceOp.before

\* C14: at most one status interval exists while the button is mounted and none
\* after it unmounted, and no listener of a torn-down monitoring effect stays
\* attached to the session it was registered on.
C14_MonitoringTornDown ==
    /\ timers = (IF mounted THEN 1 ELSE 0)
    /\ ~mounted => buttonListener = "none"
    /\ ~leaked

-----------------------------------------------------------------------------
(* Browsing index claims *)

\* C15: on a non-empty filtered list of length n, next from n-1 gives 0 and
\* previous from 0 gives n-1, and from any other index of the list they move
\* by one; on an empty list both change nothing and the index is 0.
C15_NextPreviousWrap ==
    LET n == lastNav.length
        b == lastNav.before
    IN  /\ lastNav.op = "next" /\ n > 0 /\ b \in 0..(n - 1)
               => currentProductIndex = (IF b = n - 1 THEN 0 ELSE b + 1)
        /\ lastNav.op = "previous" /\ n > 0 /\ b \in 0..(n - 1)
               => currentProductIndex = (IF b = 0 THEN n - 1 ELSE b - 1)
        /\ lastNav.op \in {"next", "previous"} /\ n = 0
               => currentProductIndex = b /\ currentProductIndex = 0

\* C16: setCurrentIndex with an index outside [0, length-1] stores 0 for a
\* negative index, length-1 for one past the end, and 0 on an empty list.
C16_IndexClamped ==
    LET n == lastNav.length
        r == lastNav.index
    IN  lastNav.op = "setCurrentIndex" /\ r \notin 0..(n - 1)
            => currentProductIndex =
                   (IF n = 0 THEN 0 ELSE IF r < 0 THEN 0 ELSE n - 1)

C16_Witness ==
    /\ lastNav.op = "setCurrentIndex"
    /\ lastNav.length = 2
    /\ lastNav.index = 3
    /\ lastNav.before = 0
    /\ currentProductIndex = 1

\* C17: after a category change, from the hook's setCategory or from the
\* filterCategory tool, with the active category or another, the index is 0.
C17_CategoryChangeResetsIndex ==
    lastNav.op \in {"setCategory", "filterCategory"} => currentProductIndex = 0

C17_Witness ==
    /\ lastNav.op = "filterCategory"
    /\ lastNav.same
    /\ lastNav.before > 0
    /\ currentProductIndex = 0

\* C18: removing a product id that no line of the cart has leaves the cart as
\* it was: the same lines in the same order with the same quantities, and the
\* same subtotal.
C18_RemoveAbsentIsNoOp ==
    lastOp.op = "remove" /\ findIndex(lastOp.before.items, lastOp.productId) = 0
        => /\ cart.items = lastOp.before.items
           /\ cart.subtotal = lastOp.before.subtotal

C18_Witness ==
    /\ lastOp.op = "remove"
    /\ findIndex(lastOp.before.items, lastOp.productId) = 0
    /\ Len(lastOp.before.items) = 2
    /\ cart = lastOp.before

-----------------------------------------------------------------------------
(* Storage failure claims *)

\* The cart the reducer of the last request returns.
ReducedCart ==
    IF lastOp.op = "add"
    THEN addToCart(lastOp.before, lastOp.product, lastOp.quantity).cart
    ELSE IF lastOp.op = "remove"
    THEN removeFromCart(lastOp.before, lastOp.productId).cart
    ELSE IF lastOp.op = "update"
    THEN updateCartItemQuantity(lastOp.before, lastOp.productId, lastOp.quantity).cart
    ELSE clearCart

\* C19: a load that finds no entry, an entry that does not parse, or a storage
\* that throws gives the empty cart and raises nothing; a request whose write
\* fails leaves the cart the reducer returned, writes nothing and raises
\* nothing but what the reducer raised.
C19_StorageFailureContained ==
    /\ ( /\ lastOp.op = "load"
         /\ Len(cartProducts) > 0
         /\ (storageFails \/ ~lastOp.beforeStore.present
                \/ ~lastOp.beforeStore.parseable) )
           => cart = [items |-> <<>>, subtotal |-> 0] /\ ~lastOp.threw
    /\ (lastOp.op \in {"add", "remove", "update", "clear"} /\ storageFails)
           => /\ cart = ReducedCart
              /\ storage = lastOp.beforeStore
              /\ lastOp.threw => lastOp.quantity <= 0

\* The list arrived over an entry that does not parse, the cart loaded empty,
\* and an add is made while setItem throws: the entry is still the one that
\* does not parse.
C19_Witness ==
    /\ lastOp.op = "add"
    /\ storageFails
    /\ ~lastOp.threw
    /\ Len(cartProducts) > 0
    /\ ~storage.parseable
    /\ lastOp.before.items = <<>>
    /\ Len(cart.items) = 1

\* C20: in the page, a next command given while the last product of the
\* filtered list is the one shown moves to the first, and a previous command
\* given at the first moves to the last, with a product detail open or not.
C20_AppNavigationWraps ==
    /\ (lastNav.op = "next" /\ lastNav.length > 0
            /\ lastNav.before = lastNav.length - 1)
           => ShownIndex = 0
    /\ (lastNav.op = "previous" /\ lastNav.length > 0 /\ lastNav.before = 0)
           => ShownIndex = lastNav.length - 1

-----------------------------------------------------------------------------
(* Voice tool claims *)

\* The lines of a cart other than the one of a product id.
OtherLines(c, pid) == SelectSeq(c.items, LAMBDA it : it.product.id # pid)

\* C21: updateCart with add, remove or update and a productId acts on the line
\* of that productId: add inserts it or raises it by the quantity (1 when none
\* is given), remove deletes it, update sets it to the quantity; the other
\* lines stay, and the tool answers success only when the action was carried
\* out.
C21_UpdateCartActsOnProductId ==
    LET pid == toolCall.productId
        q == IF toolCall.quantity = 0 THEN 1 ELSE toolCall.quantity
        carried ==
            /\ OtherLines(cart, pid) = OtherLines(toolCall.before, pid)
            /\ toolCall.action = "add"
                   => LineQty(cart, pid) = LineQty(toolCall.before, pid) + q
            /\ toolCall.action = "remove" => LineQty(cart, pid) = 0
            /\ toolCall.action = "update"
                   => LineQty(cart, pid) =
                          (IF LineQty(toolCall.before, pid) = 0 THEN 0
                           ELSE toolCall.quantity)
    IN  (toolCall.action \in {"add", "remove", "update"} /\ pid # 0)
            => (toolCall.answer = "completed successfully" => carried)

-----------------------------------------------------------------------------
(* Voice session claims *)

\* C25: readProductDetails invoked while a product detail is open leaves that
\* product selected.
C25_ReadKeepsSelectedProduct ==
    (lastNav.op = "readProductDetails" /\ lastNav.same)
        => ShownIndex = lastNav.before

\* C26: whenever the filtered list is non-empty, the browsing index lies in
\* [0, length - 1], so that the current product is the element of the filtered
\* list at that index and never undefined.
C26_IndexWithinFilteredList ==
    Len(filteredProducts) > 0
        => currentProductIndex \in 0..(Len(filteredProducts) - 1)

\* C27: the cache timestamp never moves backwards: when overlapping fetches
\* complete, no completion replaces the timestamp of a fetch that started
\* later by that of a fetch that started earlier.
C27_CacheTimestampNeverMovesBack ==
    [][(~cacheTimestamp.isNull /\ ~cacheTimestamp'.isNull)
           => cacheTimestamp'.value >= cacheTimestamp.value]_vars

\* C28: k navigation requests of one direction delivered before the
\* component renders again move the index by k positions modulo the length of
\* the list.
C28_BatchedRequestsAllCount ==
    (/\ lastNav.op \in {"nextRequests", "previousRequests"}
     /\ lastNav.length > 0
     /\ lastNav.before < lastNav.length)
        => currentProductIndex =
               IF lastNav.op = "nextRequests"
               THEN (lastNav.before + lastNav.index) % lastNav.length
               ELSE (lastNav.before + lastNav.index * (lastNav.length - 1))
                        % lastNav.length

\* The pairs of a persisted entry whose product the catalog knows, in order.
PersistedKnown(pairs, catalog) ==
    SelectSeq(pairs, LAMBDA e : \E i \in 1..Len(catalog) : catalog[i].id = e.productId)

C30_FailedFetchKeepsCache ==
    /\ [][(/\ BagCardinality(inflight') < BagCardinality(inflight)
           /\ fetchOutcome'.result.threw)
              => /\ productCache' = productCache
                 /\ cacheTimestamp' = cacheTimestamp]_vars
    /\ []( (/\ lastNav.op = "setCategory" /\ ~lastNav.same
            /\ fetchOutcome.done /\ fetchOutcome.result.threw
            /\ ~fetchLog.cacheWas.isNull
            /\ ~fetchLog.timestampWas.isNull
            /\ fetchLog.at - fetchLog.timestampWas.value < CACHE_DURATION)
               => /\ ~fetchLog.network
                  /\ fetchLog.returned = fetchLog.cacheWas
                  /\ products = fetchLog.cacheWas.value
                  /\ productCache = fetchLog.cacheWas )

\* The last completion failed with a list in the cache, and the non-forced
\* fetch of a category change made after it, 200 s after the stored
\* timestamp, was answered with that list.
C30_Witness ==
    /\ lastNav.op = "setCategory" /\ ~lastNav.same
    /\ fetchOutcome.done /\ fetchOutcome.result.threw
    /\ BagCardinality(inflight) = 0
    /\ ~fetchLog.forced /\ ~fetchLog.network
    /\ fetchLog.at - fetchLog.timestampWas.value = 2 * TickMs
    /\ Len(fetchLog.returned.value) > 0
    /\ products = fetchLog.returned.value

\* C22: never are two startCall invocations in progress nor two sessions
\* live; a startCall made while another is in progress changes neither the
\* session nor the calls in progress, and no session is live while a call is
\* being created.
C22_OneStartOneSession ==
    /\ [](/\ BagCardinality(starts) <= 1
          /\ liveSessions <= 1
          /\ BagIn("createCall", starts) => liveSessions = 0)
    /\ [][(lastVoiceOp'.op = "startCall" /\ isCreatingCall)
              => UNCHANGED <<uvSession, isCreatingCall, startVars>>]_vars

\* A startCall was made while another was awaiting joinCall on its session.
C22_Witness ==
    /\ lastVoiceOp.op = "startCall"
    /\ BagIn("joinCall", starts)
    /\ isSessionActive
    /\ liveSessions = 1

\* C23: when startCall fails, at createCall (no join URL included) or at
\* joinCall, no session is active, isCreatingCall is cleared and the button
\* shows error; and a button that shows error shows it until it is clicked.
C23_FailedStartShowsError ==
    /\ [](lastVoiceOp.op \in {"createCallFailed", "joinCallFailed"}
             => /\ ~isSessionActive
                /\ ~isCreatingCall
                /\ localStatus = "error")
    /\ [][(localStatus = "error" /\ lastVoiceOp'.op # "activate")
              => localStatus' = "error"]_vars

\* C24: a click while the button shows connecting or an activation is in
\* progress changes neither the session nor the status; a click on idle or
\* error shows connecting, and listening once joinCall succeeded; a click on
\* listening or speaking ends the session and shows idle.
C24_ClickByStatus ==
    /\ [](/\ lastVoiceOp.op = "activate"
                => lastVoiceOp.before \in {"idle", "error"} /\ localStatus = "connecting"
          /\ lastVoiceOp.op = "joinCall" => localStatus = "listening"
          /\ lastVoiceOp.op = "deactivate"
                => /\ lastVoiceOp.before \in {"listening", "speaking"}
                   /\ localStatus = "idle"
                   /\ ~isSessionActive)
    /\ [][( /\ isActivating \/ localStatus = "connecting"
            /\ lastVoiceOp'.op \in {"activate", "deactivate", "clickIgnored"} )
              => UNCHANGED <<uvSession, isCreatingCall, localStatus, isActivating,
                             callPhase>>]_vars

\* The button was clicked while it showed connecting, with the session being
\* joined.
C24_Witness ==
    /\ lastVoiceOp.op = "clickIgnored"
    /\ lastVoiceOp.before = "connecting"
    /\ callPhase = "joinCall"
    /\ isSessionActive

====
